---- MODULE Spec2Model ----
(***************************************************************************)
(* The seat/cargo reservation core of the TrainStation backend             *)
(* (station/models.py, serializers.py, views.py, admin.py) as a state      *)
(* machine over the relational store.                                      *)
(*                                                                         *)
(* The store holds the Train, Cargo, Journey, Order and Ticket tables.     *)
(* Every request handler is one action: the whole handler, its validation, *)
(* its transaction, the cascades of a delete and the post_save/post_delete *)
(* receiver update_cargo_num included.                                     *)
(***************************************************************************)
EXTENDS Integers, Sequences, FiniteSets, Bags, TLC

(* ---------------------------------------------------------------------- *)
(* Bounds of the model                                                     *)
(* ---------------------------------------------------------------------- *)
MaxTickets == 2

\* The largest seat or cargo number a call of validate_position is given.
MaxPosition == 4

\* Train.places_in_cargo: MaxValueValidator(160)
MaxPlacesInCargo == 160

TrainIds == {1, 2}
JourneyIds == {1, 2}
RouteIds == {1, 2}
CargoIds == {1, 2}
OrderIds == {1, 2}
ClientIds == {1, 2}
\* The values a request may carry. The booking specification numbers every
\* cargo 1; the cargo registry specification uses the wider sets.
Seats == {1, 2}
CargoNumbers == {1}
CargoNumInputs == {0, 1}
PlacesInputs == {0, 1, 2, MaxPlacesInCargo + 1}
CargoNumbersWide == {1, 2}
CargoNumInputsWide == {0, 1, 2}
\* The users that send requests and the readings of the clock; the order
\* specification uses the wider sets.
Users == {1}
Times == {0}
UsersWide == {1, 2}
TimesWide == {0, 1}
StationIds == {1, 2, 3}
RouteIdsWide == {1, 2, 3, 4}
CargoIdsWide == {1, 2, 3}
PositionValues == -1 .. MaxPosition + 1
PositionMaxValues == 0 .. MaxPosition
FieldNames == {"seat", "cargo number"}
ErrorClasses == {"django.core.exceptions.ValidationError",
                 "rest_framework.exceptions.ValidationError"}

VARIABLES
    trains,     \* Train table:   id -> [cargo_num, places_in_cargo]
    cargos,     \* Cargo table:   id -> [train, number]
    journeys,   \* Journey table: id -> [train, route]
    orders,     \* Order table:   the ids of the Order rows
    tickets,    \* Ticket table:  a bag of rows [cargo, seat, journey, order]
    last,       \* the last handler that ran and how it ended
    inflight,   \* per client: the order request it has in flight
    order_rows, \* Order table:   id -> [user, created_at]
    routes      \* Route table:   id -> [source, destination]

vars == <<trains, cargos, journeys, orders, tickets, last, inflight,
          order_rows, routes>>

\* The store as one value, so that a transaction can work on a copy of it.
DB == [trains |-> trains, cargos |-> cargos, journeys |-> journeys,
       orders |-> orders, tickets |-> tickets]

\* An AutoField primary key: a key no row of the table holds.
FreshId(used, ids) == CHOOSE i \in ids \ used : \A k \in ids \ used : i <= k

\* The rows of bag B that satisfy keep(_), with their multiplicity.
BagFilter(B, keep(_)) == [x \in {y \in DOMAIN B : keep(y)} |-> B[x]]

(* ---------------------------------------------------------------------- *)
(* Train                                                                   *)
(* ---------------------------------------------------------------------- *)
\* Mutant: a capacity that adds the two fields.
capacity_sum(train) == train.cargo_num + train.places_in_cargo

\* Train.capacity
capacity(train) == train.cargo_num * train.places_in_cargo

\* TrainRetrieveSerializer: what GET /trains/<id>/ shows of a Train row;
\* capacity is read from the property on every serialization.
TrainRetrieveSerializer(train) ==
    [cargo_num |-> train.cargo_num,
     places_in_cargo |-> train.places_in_cargo,
     capacity |-> capacity(train)]

(* ---------------------------------------------------------------------- *)
(* Ticket                                                                  *)
(* ---------------------------------------------------------------------- *)
\* Mutant: a range check that excludes the upper bound.
validate_position_exclusive(value, max_value) ==
    (1 <= value) /\ (value < max_value)

\* Ticket.validate_position: TRUE when it returns, FALSE when it raises.
validate_position(value, max_value) == (1 <= value) /\ (value <= max_value)

\* Ticket.validate_position with what it raises: error_class built from the
\* dict {field_name: f"{field_name} must be in range [1, {max_value}], not
\* {value}"}; the message is kept as the values it is formatted from.
Ticket_validate_position(value, max_value, field_name, error_class) ==
    IF validate_position(value, max_value)
    THEN [raised |-> FALSE, error_class |-> "", detail |-> <<>>]
    ELSE [raised |-> TRUE, error_class |-> error_class,
          detail |-> (field_name :>
                        [field_name |-> field_name, max_value |-> max_value,
                         value |-> value])]

\* Ticket.clean: seat against places_in_cargo, cargo.number against cargo_num,
\* both of the train of the ticket's journey.
Ticket_clean(db, t) ==
    LET train == db.trains[db.journeys[t.journey].train] IN
    /\ validate_position(t.seat, train.places_in_cargo)
    /\ validate_position(db.cargos[t.cargo].number, train.cargo_num)

\* Mutant: the model without the constraint unique_ticket_position.
unique_ticket_position_dropped(rows, t) == TRUE

\* UniqueConstraint(fields=[seat, cargo, journey], name=unique_ticket_position)
unique_ticket_position(rows, t) ==
    ~ \E r \in BagToSet(rows) :
        r.seat = t.seat /\ r.cargo = t.cargo /\ r.journey = t.journey

\* Mutant: a save that inserts without full_clean() and without the constraint.
Ticket_save_unchecked(db, t) ==
    [ok |-> TRUE, db |-> [db EXCEPT !.tickets = @ (+) SetToBag({t})]]

\* Ticket.save: full_clean() (the foreign keys exist, clean(), the constraint),
\* then the insert, on which the store enforces the constraint again.
Ticket_save(db, t) ==
    IF /\ t.cargo \in DOMAIN db.cargos
       /\ t.journey \in DOMAIN db.journeys
       /\ t.order \in db.orders
       /\ Ticket_clean(db, t)
       /\ unique_ticket_position(db.tickets, t)
    THEN [ok |-> TRUE, db |-> [db EXCEPT !.tickets = @ (+) SetToBag({t})]]
    ELSE [ok |-> FALSE, db |-> db]

(* ---------------------------------------------------------------------- *)
(* Serializers                                                             *)
(* ---------------------------------------------------------------------- *)
\* JourneyListSerializer.get_tickets_available
get_tickets_available(db, j) ==
    capacity(db.trains[db.journeys[j].train])
        - BagCardinality(BagFilter(db.tickets, LAMBDA r : r.journey = j))

\* TicketSerializer, the fields ("id", "cargo", "seat", "journey", "order"):
\* cargo, journey and order are required primary keys of existing rows.
\* order = 0 stands for a ticket that carries no order key.
TicketSerializer_fields(db, data) ==
    /\ data.cargo \in DOMAIN db.cargos
    /\ data.journey \in DOMAIN db.journeys
    /\ data.order \in db.orders

\* Mutant: a validate that checks the seat and forgets the cargo number.
TicketSerializer_validate_seat_only(db, attrs) ==
    LET train == db.trains[db.journeys[attrs.journey].train] IN
    validate_position(attrs.seat, train.places_in_cargo)

\* TicketSerializer.validate
TicketSerializer_validate(db, attrs) ==
    LET train == db.trains[db.journeys[attrs.journey].train] IN
    /\ validate_position(attrs.seat, train.places_in_cargo)
    /\ validate_position(db.cargos[attrs.cargo].number, train.cargo_num)

\* Mutant: the ticket list declared without allow_empty=False.
OrderSerializer_is_valid_allow_empty(db, tickets_data) ==
    \A i \in 1 .. Len(tickets_data) :
        /\ TicketSerializer_fields(db, tickets_data[i])
        /\ TicketSerializer_validate(db, tickets_data[i])

\* OrderSerializer.tickets = TicketSerializer(many=True, allow_empty=False):
\* is_valid() of the request.
OrderSerializer_is_valid(db, tickets_data) ==
    /\ Len(tickets_data) > 0
    /\ \A i \in 1 .. Len(tickets_data) :
        /\ TicketSerializer_fields(db, tickets_data[i])
        /\ TicketSerializer_validate(db, tickets_data[i])

\* The loop of OrderSerializer.create:
\*     for ticket_data in tickets_data:
\*         Ticket.objects.create(order=order, **ticket_data)
\* A ticket_data that holds the key "order" itself makes the call raise
\* TypeError (two values for the keyword argument order).
RECURSIVE create_tickets(_, _, _)
create_tickets(db, order, tickets_data) ==
    IF tickets_data = <<>> THEN [ok |-> TRUE, err |-> "", db |-> db]
    ELSE LET ticket_data == Head(tickets_data) IN
         IF "order" \in DOMAIN ticket_data
         THEN [ok |-> FALSE, err |-> "TypeError", db |-> db]
         ELSE LET r == Ticket_save(db, [cargo |-> ticket_data.cargo,
                                        seat |-> ticket_data.seat,
                                        journey |-> ticket_data.journey,
                                        order |-> order]) IN
              IF r.ok THEN create_tickets(r.db, order, Tail(tickets_data))
              ELSE [ok |-> FALSE, err |-> "ValidationError", db |-> r.db]

\* Mutant: the block without transaction.atomic(): its writes stay when it
\* raises.
transaction_atomic_no_rollback(before, result) == result.db

\* with transaction.atomic(): the block's writes are kept when it returns and
\* undone when it raises.
transaction_atomic(before, result) ==
    IF result.ok THEN result.db ELSE before

\* OrderSerializer.create
OrderSerializer_create(db, tickets_data) ==
    LET order == FreshId(db.orders, OrderIds)
        r == create_tickets([db EXCEPT !.orders = @ \cup {order}],
                            order, tickets_data)
    IN [ok |-> r.ok, err |-> r.err, order |-> order,
        db |-> transaction_atomic(db, r)]

(* ---------------------------------------------------------------------- *)
(* The journey list query                                                  *)
(* ---------------------------------------------------------------------- *)
\* The row of NULLs a LEFT OUTER JOIN yields for a journey with no ticket.
NullTicket == [cargo |-> 0, seat |-> 0, journey |-> 0, order |-> 0]

\* Journey LEFT OUTER JOIN Ticket, the rows of journey j: one per ticket of
\* j, or one row of NULLs.
joined_tickets(db, j) ==
    LET rows == BagFilter(db.tickets, LAMBDA r : r.journey = j) IN
    IF rows = EmptyBag THEN SetToBag({NullTicket}) ELSE rows

\* Mutant: COUNT(*), which counts the row of NULLs too.
Count_star(rows) == BagCardinality(rows)

\* Count("tickets") = COUNT(ticket.id): the joined rows whose ticket is not NULL.
Count_tickets(rows) ==
    BagCardinality(BagFilter(rows, LAMBDA r : r # NullTicket))

\* JourneyViewSet.get_queryset for the action "list": the annotation
\*     F("train__cargo_num") * F("train__places_in_cargo") - Count("tickets")
\* grouped by journey, then the filters of the query parameters train and
\* route (an empty parameter does not filter). The result maps each journey
\* it lists to its annotation tickets_available.
JourneyViewSet_get_queryset(db, train_ids, route_ids) ==
    LET annotate(j) ==
            LET train == db.trains[db.journeys[j].train] IN
            train.cargo_num * train.places_in_cargo
                - Count_tickets(joined_tickets(db, j))
        listed == {j \in DOMAIN db.journeys :
                    /\ train_ids # {} => db.journeys[j].train \in train_ids
                    /\ route_ids # {} => db.journeys[j].route \in route_ids}
    IN [j \in listed |-> annotate(j)]

(* ---------------------------------------------------------------------- *)
(* Cargo                                                                   *)
(* ---------------------------------------------------------------------- *)
\* train.cargos.count()
cargos_count(cargo_rows, t) ==
    Cardinality({c \in DOMAIN cargo_rows : cargo_rows[c].train = t})

\* Mutant: a receiver that only ever raises cargo_num.
update_cargo_num_grow_only(train_rows, cargo_rows, t, cargo_num) ==
    LET cargo_count == cargos_count(cargo_rows, t) IN
    IF cargo_num < cargo_count
    THEN [train_rows EXCEPT ![t].cargo_num = cargo_count]
    ELSE train_rows

\* The receiver update_cargo_num of post_save and post_delete of Cargo.
\* cargo_num is the value held by instance.train, the Train object in memory.
update_cargo_num(train_rows, cargo_rows, t, cargo_num) ==
    LET cargo_count == cargos_count(cargo_rows, t) IN
    IF cargo_num # cargo_count
    THEN [train_rows EXCEPT ![t].cargo_num = cargo_count]
    ELSE train_rows

\* Mutant: Cargo without unique_together.
unique_cargo_dropped(cargo_rows, self, t, n) == TRUE

\* Cargo.Meta.unique_together = ("train", "number")
unique_cargo(cargo_rows, self, t, n) ==
    ~ \E c \in DOMAIN cargo_rows \ {self} :
        cargo_rows[c].train = t /\ cargo_rows[c].number = n

(* ---------------------------------------------------------------------- *)
(* Route                                                                   *)
(* ---------------------------------------------------------------------- *)
\* CheckConstraint(check=~Q(source=F("destination")),
\*                 name="prevent_same_station")
prevent_same_station(source, destination) == source # destination

\* Mutant: a uniqueness that takes A -> B and B -> A for one route.
unique_route_unordered(route_rows, self, source, destination) ==
    ~ \E r \in DOMAIN route_rows \ {self} :
        {route_rows[r].source, route_rows[r].destination}
            = {source, destination}

\* UniqueConstraint(fields=["source", "destination"], name="unique_route")
unique_route(route_rows, self, source, destination) ==
    ~ \E r \in DOMAIN route_rows \ {self} :
        /\ route_rows[r].source = source
        /\ route_rows[r].destination = destination

(* ---------------------------------------------------------------------- *)
(* The record of the last handler                                          *)
(* ---------------------------------------------------------------------- *)
\* A client with no request in flight.
Idle == [phase |-> "idle", kind |-> "", data |-> <<>>, outcome |-> "",
         raced |-> FALSE]

\* fault: the store refused a write of the handler.
NoOp == [op |-> "none", outcome |-> "", n |-> 0, bad |-> FALSE, dup |-> FALSE,
         fault |-> FALSE]

Done(op, outcome) == [NoOp EXCEPT !.op = op, !.outcome = outcome]

\* What a request says of the store it meets, in the claims' own words.
Position(t) == <<t.journey, t.cargo, t.seat>>

OutOfRange(db, t) ==
    /\ t.cargo \in DOMAIN db.cargos
    /\ t.journey \in DOMAIN db.journeys
    /\ LET train == db.trains[db.journeys[t.journey].train] IN
       \/ t.seat < 1
       \/ t.seat > train.places_in_cargo
       \/ db.cargos[t.cargo].number < 1
       \/ db.cargos[t.cargo].number > train.cargo_num

Committed(db, t) == \E r \in BagToSet(db.tickets) : Position(r) = Position(t)

SomeOutOfRange(db, data) == \E i \in 1 .. Len(data) : OutOfRange(db, data[i])

SomeTaken(db, data) ==
    \/ \E i \in 1 .. Len(data) : Committed(db, data[i])
    \/ \E i, k \in 1 .. Len(data) : i # k /\ Position(data[i]) = Position(data[k])

CargoTaken(t, n) ==
    \E c \in DOMAIN cargos : cargos[c].train = t /\ cargos[c].number = n

RouteTaken(source, destination) ==
    \E r \in DOMAIN routes :
        routes[r].source = source /\ routes[r].destination = destination

(* ---------------------------------------------------------------------- *)
(* Requests                                                                *)
(* ---------------------------------------------------------------------- *)
TicketInputs == [cargo : CargoIds, seat : Seats, journey : JourneyIds]

\* Ticket lists of a request: none, one or two tickets.
TicketLists ==
    {<<>>} \cup {<<a>> : a \in TicketInputs}
           \cup {<<a, b>> : a \in TicketInputs, b \in TicketInputs}

\* The ticket list as the order endpoint receives it: every ticket also
\* carries the field "order" (0: the key is absent).
WithOrder(data, o) ==
    [i \in 1 .. Len(data) |->
        [cargo |-> data[i].cargo, seat |-> data[i].seat,
         journey |-> data[i].journey, order |-> o]]

(* ---------------------------------------------------------------------- *)
(* Handlers                                                                *)
(* ---------------------------------------------------------------------- *)
Store(db) ==
    /\ trains' = db.trains
    /\ cargos' = db.cargos
    /\ journeys' = db.journeys
    /\ orders' = db.orders
    /\ tickets' = db.tickets

\* The user and created_at columns once a transaction has ended with the
\* Order table holding the ids kept: a row created in it is the requested
\* user's, stamped by auto_now_add; a row no longer kept is gone.
Order_rows_after(kept, order, user, now) ==
    [o \in kept |-> IF o \in DOMAIN order_rows THEN order_rows[o]
                    ELSE [user |-> user, created_at |-> now]]

\* POST /orders/: OrderViewSet.create -> OrderSerializer.is_valid ->
\* perform_create -> OrderSerializer.create, which saves with
\* user=request.user.
OrderViewSet_create(data, o, user, now) ==
    LET tickets_data == WithOrder(data, o)
        digest == [NoOp EXCEPT !.op = "api_order", !.n = Len(data),
                               !.bad = SomeOutOfRange(DB, data),
                               !.dup = SomeTaken(DB, data)]
    IN
    /\ orders # OrderIds
    /\ BagCardinality(tickets) + Len(data) <= MaxTickets
    /\ UNCHANGED <<inflight, routes>>
    /\ IF ~ OrderSerializer_is_valid(DB, tickets_data)
       THEN /\ UNCHANGED <<trains, cargos, journeys, orders, tickets,
                           order_rows>>
            /\ last' = [digest EXCEPT !.outcome = "invalid"]
       ELSE LET r == OrderSerializer_create(DB, tickets_data) IN
            /\ Store(r.db)
            /\ order_rows' = Order_rows_after(r.db.orders, r.order, user, now)
            /\ last' = [digest EXCEPT
                            !.outcome = IF r.ok THEN "created" ELSE r.err]

\* The inline forms of OrderAdmin: each saved with Ticket.save().
RECURSIVE save_formset(_, _, _)
save_formset(db, order, forms) ==
    IF forms = <<>> THEN [ok |-> TRUE, db |-> db]
    ELSE LET r == Ticket_save(db, [cargo |-> Head(forms).cargo,
                                   seat |-> Head(forms).seat,
                                   journey |-> Head(forms).journey,
                                   order |-> order]) IN
         IF r.ok THEN save_formset(r.db, order, Tail(forms))
         ELSE [ok |-> FALSE, db |-> r.db]

\* The admin's add view of Order with its TicketInline, one transaction.
OrderAdmin_add(data, user, now) ==
    LET order == FreshId(orders, OrderIds)
        r == save_formset([DB EXCEPT !.orders = @ \cup {order}], order, data)
        digest == [NoOp EXCEPT !.op = "admin_order", !.n = Len(data),
                               !.bad = SomeOutOfRange(DB, data),
                               !.dup = SomeTaken(DB, data)]
    IN
    /\ orders # OrderIds
    /\ BagCardinality(tickets) + Len(data) <= MaxTickets
    /\ UNCHANGED <<inflight, routes>>
    /\ Store(transaction_atomic(DB, r))
    /\ order_rows' = Order_rows_after(transaction_atomic(DB, r).orders,
                                      order, user, now)
    /\ last' = [digest EXCEPT
                    !.outcome = IF r.ok THEN "created" ELSE "rejected"]

\* Mutant: Ticket.order without the cascade.
OrderViewSet_destroy_no_cascade(o) ==
    /\ o \in orders
    /\ orders' = orders \ {o}
    /\ order_rows' = Order_rows_after(orders \ {o}, o, 0, 0)
    /\ UNCHANGED <<trains, cargos, journeys, tickets, inflight, routes>>
    /\ last' = Done("order_delete", "deleted")

\* DELETE /orders/<id>/: Ticket.order is on_delete=CASCADE. The record keeps
\* the number of Ticket rows the order held.
OrderViewSet_destroy(o) ==
    /\ o \in orders
    /\ orders' = orders \ {o}
    /\ order_rows' = Order_rows_after(orders \ {o}, o, 0, 0)
    /\ tickets' = BagFilter(tickets, LAMBDA r : r.order # o)
    /\ UNCHANGED <<trains, cargos, journeys, inflight, routes>>
    /\ last' = [Done("order_delete", "deleted") EXCEPT
                    !.n = BagCardinality(
                            BagFilter(tickets, LAMBDA r : r.order = o))]

\* PUT /trains/<id>/: TrainSerializer with the validators of Train.cargo_num
\* and Train.places_in_cargo.
TrainViewSet_update(t, cargo_num, places_in_cargo) ==
    /\ IF cargo_num >= 1 /\ places_in_cargo >= 1
          /\ places_in_cargo <= MaxPlacesInCargo
       THEN /\ trains' = [trains EXCEPT ![t] =
                            [cargo_num |-> cargo_num,
                             places_in_cargo |-> places_in_cargo]]
            /\ last' = Done("train_update", "saved")
       ELSE /\ UNCHANGED trains
            /\ last' = Done("train_update", "invalid")
    /\ UNCHANGED <<cargos, journeys, orders, tickets, inflight,
                 order_rows, routes>>

\* CargoAdmin, add: the new row, then post_save -> update_cargo_num. The
\* Train of the form is read from the store by this request.
CargoAdmin_add(t, n) ==
    /\ DOMAIN cargos # CargoIds
    /\ IF unique_cargo(cargos, 0, t, n)
       THEN LET id == FreshId(DOMAIN cargos, CargoIds)
                rows == cargos @@ (id :> [train |-> t, number |-> n]) IN
            /\ cargos' = rows
            /\ trains' = update_cargo_num(trains, rows, t, trains[t].cargo_num)
            /\ last' = [Done("cargo_create", "saved") EXCEPT
                            !.dup = CargoTaken(t, n)]
       ELSE /\ UNCHANGED <<trains, cargos>>
            /\ last' = [Done("cargo_create", "invalid") EXCEPT
                            !.dup = CargoTaken(t, n)]
    /\ UNCHANGED <<journeys, orders, tickets, inflight,
                 order_rows, routes>>

\* CargoAdmin, delete: the row and the tickets that reference it
\* (Ticket.cargo is on_delete=CASCADE), then post_delete -> update_cargo_num.
CargoAdmin_delete(c) ==
    /\ c \in DOMAIN cargos
    /\ LET t == cargos[c].train
           rows == [i \in DOMAIN cargos \ {c} |-> cargos[i]] IN
       /\ cargos' = rows
       /\ tickets' = BagFilter(tickets, LAMBDA r : r.cargo # c)
       /\ trains' = update_cargo_num(trains, rows, t, trains[t].cargo_num)
       /\ last' = Done("cargo_delete", "deleted")
    /\ UNCHANGED <<journeys, orders, inflight, order_rows, routes>>

\* CargoAdmin, change: train and number of an existing row are editable; the
\* row is saved, then post_save -> update_cargo_num(instance), whose
\* instance.train is the train the form now names.
CargoAdmin_change(c, t, n) ==
    /\ c \in DOMAIN cargos
    /\ IF unique_cargo(cargos, c, t, n)
       THEN LET rows == [cargos EXCEPT ![c] = [train |-> t, number |-> n]] IN
            /\ cargos' = rows
            /\ trains' = update_cargo_num(trains, rows, t, trains[t].cargo_num)
            /\ last' = Done("cargo_update", "saved")
       ELSE /\ UNCHANGED <<trains, cargos>>
            /\ last' = Done("cargo_update", "invalid")
    /\ UNCHANGED <<journeys, orders, tickets, inflight,
                 order_rows, routes>>

(* ---------------------------------------------------------------------- *)
(* Specification                                                           *)
(* ---------------------------------------------------------------------- *)
\* Two trains as POST /trains/ leaves them (no Cargo row yet), a journey of
\* each, no order.
Init ==
    /\ trains = [t \in TrainIds |-> [cargo_num |-> 1, places_in_cargo |-> 1]]
    /\ cargos = <<>>
    /\ journeys = [j \in JourneyIds |-> [train |-> j, route |-> j]]
    /\ orders = {}
    /\ tickets = EmptyBag
    /\ last = NoOp
    /\ inflight = [c \in ClientIds |-> Idle]
    /\ order_rows = <<>>
    /\ routes = [r \in RouteIds |->
                    [source |-> r, destination |-> 1 + (r % 2)]]

Next ==
    \/ \E data \in TicketLists, o \in {0} \cup orders,
          user \in Users, now \in Times :
            OrderViewSet_create(data, o, user, now)
    \/ \E data \in TicketLists, user \in Users, now \in Times :
            OrderAdmin_add(data, user, now)
    \/ \E o \in OrderIds : OrderViewSet_destroy(o)
    \/ \E t \in TrainIds, cn \in CargoNumInputs, p \in PlacesInputs :
            TrainViewSet_update(t, cn, p)
    \/ \E t \in TrainIds, n \in CargoNumbers : CargoAdmin_add(t, n)
    \/ \E c \in CargoIds : CargoAdmin_delete(c)
    \/ \E c \in CargoIds, t \in TrainIds, n \in CargoNumbers :
            CargoAdmin_change(c, t, n)

Spec == Init /\ [][Next]_vars

\* The cargo registry alone: Cargo administration and Train updates over the
\* wider value sets, no order.
NextCargo ==
    \/ \E t \in TrainIds, cn \in CargoNumInputsWide, p \in PlacesInputs :
            TrainViewSet_update(t, cn, p)
    \/ \E t \in TrainIds, n \in CargoNumbersWide : CargoAdmin_add(t, n)
    \/ \E c \in CargoIds : CargoAdmin_delete(c)
    \/ \E c \in CargoIds, t \in TrainIds, n \in CargoNumbersWide :
            CargoAdmin_change(c, t, n)

SpecCargo == Init /\ [][NextCargo]_vars

(* ---------------------------------------------------------------------- *)
(* The cargo registry when the store refuses the write of cargo_num        *)
(* ---------------------------------------------------------------------- *)
\* The receiver writes only when the count differs from instance.train's
\* cargo_num.
receiver_writes(cargo_rows, t) ==
    trains[t].cargo_num # cargos_count(cargo_rows, t)

\* Cargo.objects.create(train=t, number=n) outside a transaction, with
\* train.save(update_fields=["cargo_num"]) raising in the receiver: the
\* INSERT is committed before post_save is sent, the receiver has no
\* try/except and send() re-raises, so the error reaches the caller.
Cargo_objects_create_write_fails(t, n) ==
    /\ DOMAIN cargos # CargoIds
    /\ unique_cargo(cargos, 0, t, n)
    /\ LET id == FreshId(DOMAIN cargos, CargoIds)
           rows == cargos @@ (id :> [train |-> t, number |-> n]) IN
       /\ receiver_writes(rows, t)
       /\ cargos' = rows
    /\ last' = [Done("cargo_create", "DatabaseError") EXCEPT !.fault = TRUE]
    /\ UNCHANGED <<trains, journeys, orders, tickets, inflight,
                 order_rows, routes>>

\* CargoAdmin, add, with the same failure: the error leaves the view, whose
\* transaction is rolled back.
CargoAdmin_add_write_fails(t, n) ==
    /\ DOMAIN cargos # CargoIds
    /\ unique_cargo(cargos, 0, t, n)
    /\ LET id == FreshId(DOMAIN cargos, CargoIds) IN
       receiver_writes(cargos @@ (id :> [train |-> t, number |-> n]), t)
    /\ last' = [Done("cargo_create", "DatabaseError") EXCEPT !.fault = TRUE]
    /\ UNCHANGED <<trains, cargos, journeys, orders, tickets, inflight,
                 order_rows, routes>>

\* Cargo deletion with the same failure: post_delete is sent inside the
\* transaction of the delete, which is rolled back.
CargoAdmin_delete_write_fails(c) ==
    /\ c \in DOMAIN cargos
    /\ receiver_writes([i \in DOMAIN cargos \ {c} |-> cargos[i]],
                       cargos[c].train)
    /\ last' = [Done("cargo_delete", "DatabaseError") EXCEPT !.fault = TRUE]
    /\ UNCHANGED <<trains, cargos, journeys, orders, tickets, inflight,
                 order_rows, routes>>

NextCargoFault ==
    \/ \E t \in TrainIds, cn \in CargoNumInputsWide, p \in PlacesInputs :
            TrainViewSet_update(t, cn, p)
    \/ \E t \in TrainIds, n \in CargoNumbersWide : CargoAdmin_add(t, n)
    \/ \E c \in CargoIds : CargoAdmin_delete(c)
    \/ \E t \in TrainIds, n \in CargoNumbersWide :
            Cargo_objects_create_write_fails(t, n)
    \/ \E t \in TrainIds, n \in CargoNumbersWide :
            CargoAdmin_add_write_fails(t, n)
    \/ \E c \in CargoIds : CargoAdmin_delete_write_fails(c)

SpecCargoFault == Init /\ [][NextCargoFault]_vars

(* ---------------------------------------------------------------------- *)
(* Cargo creations and deletions, statement by statement                   *)
(* ---------------------------------------------------------------------- *)
\* What a caller holds of its Cargo operation: the Cargo instance (train,
\* number, id), cargo_num of the Train object instance.train in memory
\* (cached: the object is loaded) and the count the receiver has taken.
CargoOp(kind, phase, t, n, id, cached, cargo_num) ==
    [Idle EXCEPT !.phase = phase, !.kind = kind,
                 !.data = [train |-> t, number |-> n, cargo |-> id,
                           cached |-> cached, cargo_num |-> cargo_num,
                           cargo_count |-> 0]]

\* The caller gets the Train object and builds the Cargo on it:
\*     Cargo.objects.create(train=train, number=n)
Cargo_objects_create_begin(c, t, n) ==
    /\ inflight[c].phase = "idle"
    /\ inflight' = [inflight EXCEPT ![c] =
            CargoOp("cargo_create", "begun", t, n, 0, TRUE,
                    trains[t].cargo_num)]
    /\ UNCHANGED <<trains, cargos, journeys, orders, tickets, last,
                   order_rows, routes>>

\* The INSERT of Cargo.save(), refused by unique_together; post_save is sent
\* after it.
Cargo_save(c) ==
    LET op == inflight[c].data IN
    /\ inflight[c].phase = "begun" /\ inflight[c].kind = "cargo_create"
    /\ DOMAIN cargos # CargoIdsWide
    /\ IF unique_cargo(cargos, 0, op.train, op.number)
       THEN /\ cargos' = cargos @@ (FreshId(DOMAIN cargos, CargoIdsWide) :>
                            [train |-> op.train, number |-> op.number])
            /\ inflight' = [inflight EXCEPT ![c].phase = "mutated"]
       ELSE /\ UNCHANGED cargos
            /\ inflight' = [inflight EXCEPT ![c].phase = "done",
                                            ![c].outcome = "IntegrityError"]
    /\ UNCHANGED <<trains, journeys, orders, tickets, last, order_rows,
                   routes>>

\* cargo = Cargo.objects.get(pk=id): the instance, its Train not loaded.
Cargo_objects_get(c, id) ==
    /\ inflight[c].phase = "idle"
    /\ id \in DOMAIN cargos
    /\ inflight' = [inflight EXCEPT ![c] =
            CargoOp("cargo_delete", "begun", cargos[id].train,
                    cargos[id].number, id, FALSE, 0)]
    /\ UNCHANGED <<trains, cargos, journeys, orders, tickets, last,
                   order_rows, routes>>

\* cargo.delete(): the row, if it is still there, and the tickets on it;
\* post_delete is sent after it.
Cargo_delete(c) ==
    LET op == inflight[c].data IN
    /\ inflight[c].phase = "begun" /\ inflight[c].kind = "cargo_delete"
    /\ cargos' = [i \in DOMAIN cargos \ {op.cargo} |-> cargos[i]]
    /\ tickets' = BagFilter(tickets, LAMBDA r : r.cargo # op.cargo)
    /\ inflight' = [inflight EXCEPT ![c].phase = "mutated"]
    /\ UNCHANGED <<trains, journeys, orders, last, order_rows, routes>>

\* update_cargo_num, `train = instance.train`: the Train object the instance
\* holds, read from the store now when the instance holds none.
update_cargo_num_train(c) ==
    LET op == inflight[c].data IN
    /\ inflight[c].phase = "mutated"
    /\ inflight' = [inflight EXCEPT
            ![c].phase = "train",
            ![c].data = [op EXCEPT
                !.cached = TRUE,
                !.cargo_num = IF op.cached THEN op.cargo_num
                              ELSE trains[op.train].cargo_num]]
    /\ UNCHANGED <<trains, cargos, journeys, orders, tickets, last,
                   order_rows, routes>>

\* update_cargo_num, `cargo_count = train.cargos.count()`
update_cargo_num_count(c) ==
    /\ inflight[c].phase = "train"
    /\ inflight' = [inflight EXCEPT
            ![c].phase = "counted",
            ![c].data.cargo_count = cargos_count(cargos, inflight[c].data.train)]
    /\ UNCHANGED <<trains, cargos, journeys, orders, tickets, last,
                   order_rows, routes>>

\* update_cargo_num, the comparison and the write:
\*     if train.cargo_num != cargo_count:
\*         train.cargo_num = cargo_count
\*         train.save(update_fields=["cargo_num"])
update_cargo_num_save(c) ==
    LET op == inflight[c].data IN
    /\ inflight[c].phase = "counted"
    /\ trains' = IF op.cargo_num # op.cargo_count
                 THEN [trains EXCEPT ![op.train].cargo_num = op.cargo_count]
                 ELSE trains
    /\ inflight' = [inflight EXCEPT
            ![c].phase = "done",
            ![c].outcome = IF inflight[c].kind = "cargo_create"
                           THEN "saved" ELSE "deleted",
            ![c].data.cargo_num = op.cargo_count]
    /\ UNCHANGED <<cargos, journeys, orders, tickets, last, order_rows,
                   routes>>

\* Train 1 owns one Cargo, numbered 1; train 2 owns none yet.
InitCargoRace ==
    /\ trains = [t \in TrainIds |-> [cargo_num |-> 1, places_in_cargo |-> 1]]
    /\ cargos = (1 :> [train |-> 1, number |-> 1])
    /\ journeys = [j \in JourneyIds |-> [train |-> j, route |-> j]]
    /\ orders = {}
    /\ tickets = EmptyBag
    /\ last = NoOp
    /\ inflight = [c \in ClientIds |-> Idle]
    /\ order_rows = <<>>
    /\ routes = [r \in RouteIds |->
                    [source |-> r, destination |-> 1 + (r % 2)]]

NextCargoRace ==
    \/ \E c \in ClientIds, t \in TrainIds, n \in CargoNumbersWide :
            Cargo_objects_create_begin(c, t, n)
    \/ \E c \in ClientIds : Cargo_save(c)
    \/ \E c \in ClientIds, id \in CargoIdsWide : Cargo_objects_get(c, id)
    \/ \E c \in ClientIds : Cargo_delete(c)
    \/ \E c \in ClientIds : update_cargo_num_train(c)
    \/ \E c \in ClientIds : update_cargo_num_count(c)
    \/ \E c \in ClientIds : update_cargo_num_save(c)
    \/ \E t \in TrainIds, cn \in CargoNumInputsWide :
            TrainViewSet_update(t, cn, 1)

SpecCargoRace == InitCargoRace /\ [][NextCargoRace]_vars

(* ---------------------------------------------------------------------- *)
(* Concurrent requests to the order endpoint                               *)
(* ---------------------------------------------------------------------- *)
\* POST /orders/ of client c, first half: OrderSerializer.is_valid reads the
\* store; nothing is written.
OrderViewSet_create_is_valid(c, data, o) ==
    LET tickets_data == WithOrder(data, o) IN
    /\ inflight[c].phase = "idle"
    /\ inflight' = [inflight EXCEPT ![c] =
            IF OrderSerializer_is_valid(DB, tickets_data)
            THEN [Idle EXCEPT !.phase = "validated", !.kind = "api",
                              !.data = tickets_data]
            ELSE [Idle EXCEPT !.phase = "done", !.kind = "api",
                              !.outcome = "invalid"]]
    /\ UNCHANGED <<trains, cargos, journeys, orders, tickets, last,
                   order_rows, routes>>

\* POST /orders/ of client c, second half: perform_create ->
\* OrderSerializer.create, one transaction on the store as it is by now.
\* raced: every other client had passed validation, with the positions still
\* free, before the first of them ran create.
OrderViewSet_perform_create(c, now) ==
    LET r == OrderSerializer_create(DB, inflight[c].data)
        raced == \A d \in ClientIds \ {c} :
                    \/ /\ inflight[d].phase = "validated"
                       /\ ~ SomeTaken(DB, inflight[c].data)
                    \/ /\ inflight[d].phase = "done"
                       /\ inflight[d].raced
    IN
    /\ inflight[c].phase = "validated"
    /\ orders # OrderIds
    /\ BagCardinality(tickets) + Len(inflight[c].data) <= MaxTickets
    /\ Store(r.db)
    /\ order_rows' = Order_rows_after(r.db.orders, r.order, c, now)
    /\ inflight' = [inflight EXCEPT ![c] =
            [@ EXCEPT !.phase = "done", !.raced = raced,
                      !.outcome = IF r.ok THEN "created" ELSE r.err]]
    /\ UNCHANGED <<last, routes>>

\* A store the handlers above lead to: each train owns one Cargo, numbered 1,
\* and order 1 holds seat 1 of cargo 2 on journey 2.
InitRace ==
    /\ trains = [t \in TrainIds |-> [cargo_num |-> 1, places_in_cargo |-> 1]]
    /\ cargos = [c \in CargoIds |-> [train |-> c, number |-> 1]]
    /\ journeys = [j \in JourneyIds |-> [train |-> j, route |-> j]]
    /\ orders = {1}
    /\ tickets = SetToBag({[cargo |-> 2, seat |-> 1, journey |-> 2,
                            order |-> 1]})
    /\ last = NoOp
    /\ inflight = [c \in ClientIds |-> Idle]
    /\ order_rows = (1 :> [user |-> 1, created_at |-> 0])
    /\ routes = [r \in RouteIds |->
                    [source |-> r, destination |-> 1 + (r % 2)]]

NextRace ==
    \/ \E c \in ClientIds, data \in TicketLists, o \in {0} \cup orders :
            OrderViewSet_create_is_valid(c, data, o)
    \/ \E c \in ClientIds, now \in Times : OrderViewSet_perform_create(c, now)
    \/ \E data \in TicketLists, user \in Users, now \in Times :
            OrderAdmin_add(data, user, now)

SpecRace == InitRace /\ [][NextRace]_vars

(* ---------------------------------------------------------------------- *)
(* Routes                                                                  *)
(* ---------------------------------------------------------------------- *)
\* RouteAdmin, add: the row is saved when both constraints of Route hold.
RouteAdmin_add(source, destination) ==
    LET digest == [NoOp EXCEPT !.op = "route_create",
                               !.bad = (source = destination),
                               !.dup = RouteTaken(source, destination)]
    IN
    /\ DOMAIN routes # RouteIdsWide
    /\ IF /\ prevent_same_station(source, destination)
          /\ unique_route(routes, 0, source, destination)
       THEN /\ routes' = routes @@
                    (FreshId(DOMAIN routes, RouteIdsWide) :>
                        [source |-> source, destination |-> destination])
            /\ last' = [digest EXCEPT !.outcome = "saved"]
       ELSE /\ UNCHANGED routes
            /\ last' = [digest EXCEPT !.outcome = "invalid"]
    /\ UNCHANGED <<trains, cargos, journeys, orders, tickets, inflight,
                   order_rows>>

\* RouteAdmin, change: source and destination of an existing row.
RouteAdmin_change(r, source, destination) ==
    /\ r \in DOMAIN routes
    /\ IF /\ prevent_same_station(source, destination)
          /\ unique_route(routes, r, source, destination)
       THEN /\ routes' = [routes EXCEPT ![r] =
                    [source |-> source, destination |-> destination]]
            /\ last' = Done("route_update", "saved")
       ELSE /\ UNCHANGED routes
            /\ last' = Done("route_update", "invalid")
    /\ UNCHANGED <<trains, cargos, journeys, orders, tickets, inflight,
                   order_rows>>

\* RouteAdmin, delete: the row, the journeys on it (Journey.route is
\* on_delete=CASCADE) and their tickets.
RouteAdmin_delete(r) ==
    /\ r \in DOMAIN routes
    /\ routes' = [i \in DOMAIN routes \ {r} |-> routes[i]]
    /\ LET kept == {j \in DOMAIN journeys : journeys[j].route # r} IN
       /\ journeys' = [j \in kept |-> journeys[j]]
       /\ tickets' = BagFilter(tickets, LAMBDA x : x.journey \in kept)
    /\ last' = Done("route_delete", "deleted")
    /\ UNCHANGED <<trains, cargos, orders, inflight, order_rows>>

NextRoute ==
    \/ \E source \in StationIds, destination \in StationIds :
            RouteAdmin_add(source, destination)
    \/ \E r \in RouteIdsWide, source \in StationIds,
          destination \in StationIds :
            RouteAdmin_change(r, source, destination)
    \/ \E r \in RouteIdsWide : RouteAdmin_delete(r)

SpecRoute == Init /\ [][NextRoute]_vars

(* ---------------------------------------------------------------------- *)
(* Updates of an order                                                     *)
(* ---------------------------------------------------------------------- *)
\* What a PUT or PATCH of /orders/<id>/ may carry: the field user (0: the
\* key is absent) and the field tickets (absent, or a list of no ticket or
\* of one).
TicketsFields ==
    {[present |-> FALSE, data |-> <<>>]}
        \cup {[present |-> TRUE, data |-> d] :
                d \in {x \in TicketLists : Len(x) <= 1}}

\* ModelSerializer.update of OrderSerializer: every validated attribute is
\* set on the instance, which is saved. user is a writable field; created_at
\* (auto_now_add) is not editable, so the serializer holds it read-only.
OrderSerializer_update(rows, o, user_field) ==
    IF user_field = 0 THEN rows
    ELSE [rows EXCEPT ![o].user = user_field]

\* OrderViewSet.update / partial_update (ModelViewSet), request of `user`:
\* get_object() on the orders of request.user, is_valid() (user and tickets
\* are required unless partial), then serializer.save() -> update(), which
\* refuses validated data that holds the nested writable field tickets
\* (AssertionError of raise_errors_on_nested_writes).
OrderViewSet_update(user, o, user_field, tickets_field, partial) ==
    LET tickets_data == WithOrder(tickets_field.data, o)
        outcome ==
            IF o \notin orders \/ order_rows[o].user # user
            THEN "not_found"
            ELSE IF ~ partial /\ (user_field = 0 \/ ~ tickets_field.present)
            THEN "invalid"
            ELSE IF /\ tickets_field.present
                    /\ ~ OrderSerializer_is_valid(DB, tickets_data)
            THEN "invalid"
            ELSE IF tickets_field.present THEN "AssertionError"
            ELSE "updated"
    IN
    /\ order_rows' = IF outcome = "updated"
                     THEN OrderSerializer_update(order_rows, o, user_field)
                     ELSE order_rows
    /\ last' = [Done("order_update", outcome) EXCEPT
                    !.n = Len(tickets_field.data)]
    /\ UNCHANGED <<trains, cargos, journeys, orders, tickets, inflight,
                   routes>>

NextOrder ==
    \/ \E data \in TicketLists, o \in {0} \cup orders,
          user \in UsersWide, now \in TimesWide :
            OrderViewSet_create(data, o, user, now)
    \/ \E data \in TicketLists, user \in UsersWide, now \in TimesWide :
            OrderAdmin_add(data, user, now)
    \/ \E o \in OrderIds : OrderViewSet_destroy(o)
    \/ \E user \in UsersWide, o \in OrderIds, user_field \in {0} \cup UsersWide,
          tickets_field \in TicketsFields, partial \in BOOLEAN :
            OrderViewSet_update(user, o, user_field, tickets_field, partial)

SpecOrder == InitRace /\ [][NextOrder]_vars

(* ---------------------------------------------------------------------- *)
(* Ticket.validate_position on its own                                     *)
(* ---------------------------------------------------------------------- *)
\* One call of the static method, as Ticket.clean and
\* TicketSerializer.validate make it; the call and its result are recorded.
validate_position_call(value, max_value, field_name, error_class) ==
    /\ last' = [op |-> "validate_position", value |-> value,
                max_value |-> max_value, field_name |-> field_name,
                error_class |-> error_class,
                result |-> Ticket_validate_position(value, max_value,
                                                    field_name, error_class)]
    /\ UNCHANGED <<trains, cargos, journeys, orders, tickets, inflight,
                 order_rows, routes>>

NextPosition ==
    \E value \in PositionValues, max_value \in PositionMaxValues,
       field_name \in FieldNames, error_class \in ErrorClasses :
        validate_position_call(value, max_value, field_name, error_class)

SpecPosition == Init /\ [][NextPosition]_vars

(* ---------------------------------------------------------------------- *)
(* Properties                                                              *)
(* ---------------------------------------------------------------------- *)
store == <<trains, cargos, journeys, orders, tickets, order_rows, routes>>

\* The number of Ticket rows at the position of row r.
RowsAt(rows, r) ==
    BagCardinality(BagFilter(rows, LAMBDA x : Position(x) = Position(r)))

\* C1: in every reachable state at most one Ticket row exists for each
\* (journey, cargo, seat).
C1_TicketPositionUnique ==
    \A r \in BagToSet(tickets) : RowsAt(tickets, r) = 1

\* C1, witness: a ticket is committed and an order that asked for a taken
\* position has just been refused.
C1_Witness ==
    /\ last.op = "admin_order" /\ last.dup /\ last.outcome = "rejected"
    /\ BagCardinality(tickets) >= 1

\* C2: OrderSerializer.create is all or nothing: a step of the order endpoint
\* either adds one Order and, owned by it, as many Ticket rows as the request
\* has tickets, or it leaves the Order and Ticket tables as they were.
C2_OrderCreateAtomic ==
    [][last'.op = "api_order" =>
        \/ /\ last'.outcome = "created"
           /\ \E o \in orders' \ orders :
                /\ orders' = orders \cup {o}
                /\ tickets \sqsubseteq tickets'
                /\ BagCardinality(tickets' (-) tickets) = last'.n
                /\ \A r \in BagToSet(tickets' (-) tickets) : r.order = o
        \/ /\ last'.outcome # "created"
           /\ orders' = orders
           /\ tickets' = tickets]_vars

\* C2, witness: OrderSerializer.create has run and raised inside its
\* transaction.
C2_Witness ==
    last.op = "api_order" /\ last.outcome = "TypeError" /\ last.n = 2

\* C3: when every client's request to the order endpoint is for one and the
\* same free position and all of them have passed validation before any of
\* them runs create, exactly one ends with its Order and Ticket created and
\* every other one ends with a conflict.
C3_ExactlyOneCommits ==
    (/\ \A c \in ClientIds :
            /\ inflight[c].phase = "done"
            /\ inflight[c].raced
            /\ inflight[c].outcome # "invalid"
            /\ Len(inflight[c].data) = 1
     /\ \A c, d \in ClientIds :
            Position(inflight[c].data[1]) = Position(inflight[d].data[1]))
    => /\ Cardinality({c \in ClientIds : inflight[c].outcome = "created"}) = 1
       /\ \A c \in ClientIds :
            inflight[c].outcome \in {"created", "ValidationError"}

\* C4: a request to the order endpoint that passes the serializer, whose
\* tickets are all in range and all at free, distinct positions, ends with
\* the Order created.
C4_ValidOrderIsCreated ==
    (/\ last.op = "api_order"
     /\ last.outcome # "invalid"
     /\ last.n > 0 /\ ~ last.bad /\ ~ last.dup)
        => last.outcome = "created"

\* C5: a request to the order endpoint with a ticket out of range is refused
\* by validation and writes nothing.
C5_OutOfRangeRejectsAll ==
    [][(last'.op = "api_order" /\ last'.bad) =>
        (last'.outcome = "invalid" /\ UNCHANGED store)]_vars

\* C5, witness: a request of two tickets, one of them out of range, has been
\* refused by validation.
C5_Witness ==
    /\ last.op = "api_order" /\ last.bad /\ last.n = 2
    /\ last.outcome = "invalid"

\* C6: an order request with a ticket at a committed position, or with two
\* tickets at one position, creates neither the Order nor any Ticket.
C6_TakenPositionRejectsAll ==
    [][(last'.op \in {"api_order", "admin_order"} /\ last'.dup) =>
        (/\ last'.outcome # "created"
         /\ orders' = orders
         /\ tickets' = tickets)]_vars

\* C6, witness: the order endpoint has run create for a request with a taken
\* position while a ticket is committed, and nothing of it is kept.
C6_Witness ==
    /\ last.op = "api_order" /\ last.dup /\ last.outcome = "TypeError"
    /\ tickets # EmptyBag

\* C7: after a successful booking no journey has sold more tickets than its
\* train has seats.
C7_AvailableNeverNegative ==
    last.outcome = "created" =>
        \A j \in JourneyIds : get_tickets_available(DB, j) >= 0

\* The Ticket rows of journey j, counted row by row.
RECURSIVE SumCopies(_, _)
SumCopies(S, B) ==
    IF S = {} THEN 0
    ELSE LET x == CHOOSE y \in S : TRUE IN B[x] + SumCopies(S \ {x}, B)

TicketCount(j) ==
    SumCopies({r \in DOMAIN tickets : r.journey = j}, tickets)

\* C8: for every journey the list query lists, under every train and route
\* filter, the annotated availability equals the per-journey one, and both
\* equal cargo_num * places_in_cargo minus the journey's Ticket rows.
C8_AvailabilityAgrees ==
    \A train_ids \in SUBSET TrainIds, route_ids \in SUBSET RouteIds :
        LET listed == JourneyViewSet_get_queryset(DB, train_ids, route_ids) IN
        \A j \in DOMAIN listed :
            /\ listed[j] = get_tickets_available(DB, j)
            /\ listed[j] =
                trains[journeys[j].train].cargo_num
                    * trains[journeys[j].train].places_in_cargo
                    - TicketCount(j)

\* C8, witness: one journey has sold tickets and another has sold none.
C8_Witness ==
    \E j, k \in JourneyIds : TicketCount(j) = 2 /\ TicketCount(k) = 0

\* The trains a Cargo step touched: the owner of a row it added or removed,
\* the owner before and the owner after of a row it changed.
Affected ==
    {cargos'[c].train : c \in {d \in DOMAIN cargos' :
                                d \notin DOMAIN cargos \/ cargos[d] # cargos'[d]}}
    \cup {cargos[c].train : c \in {d \in DOMAIN cargos :
                                d \notin DOMAIN cargos' \/ cargos[d] # cargos'[d]}}

Synced(t) == trains'[t].cargo_num = cargos_count(cargos', t)

C10_EveryAffectedTrainSynced ==
    [][(last'.op = "cargo_update" /\ last'.outcome = "saved") =>
            \A t \in Affected : Synced(t)]_vars

\* C11: in every reachable state every train's stored cargo_num is at
\* least 1.
C11_CargoNumAtLeastOne ==
    \A t \in TrainIds : trains[t].cargo_num >= 1

\* C12: in every reachable state the cargo of every Ticket row is an
\* existing Cargo of the train of the ticket's journey.
C12_TicketCargoOfJourneyTrain ==
    \A r \in BagToSet(tickets) :
        /\ r.cargo \in DOMAIN cargos
        /\ cargos[r.cargo].train = journeys[r.journey].train

\* C13: validate_position raises exactly when value < 1 or value >
\* max_value; what it raises is of the class it was given, keyed by the field
\* name alone, and reports max_value and value.
C13_ValidatePositionRange ==
    last.op = "validate_position" =>
        LET r == last.result IN
        /\ r.raised <=> (last.value < 1 \/ last.value > last.max_value)
        /\ r.raised =>
            /\ r.error_class = last.error_class
            /\ DOMAIN r.detail = {last.field_name}
            /\ r.detail[last.field_name].max_value = last.max_value
            /\ r.detail[last.field_name].value = last.value

\* C13, witness: the last call was given a value one above its upper bound
\* and raised.
C13_Witness ==
    /\ last.op = "validate_position"
    /\ last.value = last.max_value + 1 /\ last.value > 1
    /\ last.result.raised

\* C14: a Cargo creation or deletion during which the store refuses the
\* write of cargo_num still completes: it ends without an error, its Cargo
\* row is added or removed, cargo_num is left as it was; and a Cargo creation
\* or deletion whose write goes through leaves cargo_num equal to the count.
C14_SyncFailureNotFatal ==
    [][/\ last'.fault =>
            /\ last'.outcome \in {"saved", "deleted"}
            /\ cargos' # cargos
            /\ trains' = trains
       /\ (/\ ~ last'.fault
           /\ last'.op \in {"cargo_create", "cargo_delete"}
           /\ last'.outcome \in {"saved", "deleted"}) =>
                \A t \in Affected : Synced(t)]_vars

C16_TicketsOwnedByOrder ==
    [][/\ \A r \in BagToSet(tickets') : r.order \in orders'
       /\ last'.op = "order_delete" =>
            \E o \in orders :
                /\ orders' = orders \ {o}
                /\ \A r \in BagToSet(tickets) :
                    /\ r.order = o =>
                        /\ ~ BagIn(r, tickets')
                        /\ RowsAt(tickets', r) = 0
                        /\ ~ OutOfRange(DB', r) =>
                            Ticket_save([DB' EXCEPT !.orders = @ \cup {o}],
                                        r).ok
                    /\ r.order # o =>
                        CopiesIn(r, tickets') = CopiesIn(r, tickets)
                /\ tickets' \sqsubseteq tickets]_vars

\* C16, witness: an order that held a ticket has been deleted while a
\* ticket of another order stays.
C16_Witness ==
    /\ last.op = "order_delete" /\ last.n >= 1
    /\ tickets # EmptyBag

\* C17: no step changes the user or the creation time of an Order that
\* exists before and after it.
C17_OrderUserAndTimeFixed ==
    [][\A o \in orders \cap orders' :
        /\ order_rows'[o].user = order_rows[o].user
        /\ order_rows'[o].created_at = order_rows[o].created_at]_vars

\* C18: no two Cargo rows of one train share a number; the creation of a
\* Cargo whose (train, number) is taken fails and leaves the Cargo rows and
\* every cargo_num as they were; the creation of any other Cargo, also one
\* whose number is in use on another train, is saved.
C18_CargoNumberUniquePerTrain ==
    [][/\ \A c, d \in DOMAIN cargos' :
            (/\ c # d
             /\ cargos'[c].train = cargos'[d].train) =>
                cargos'[c].number # cargos'[d].number
       /\ (last'.op = "cargo_create" /\ last'.dup) =>
            /\ last'.outcome = "invalid"
            /\ cargos' = cargos
            /\ trains' = trains
       /\ (last'.op = "cargo_create" /\ ~ last'.dup) =>
            /\ last'.outcome = "saved"
            /\ Cardinality(DOMAIN cargos') = Cardinality(DOMAIN cargos) + 1
      ]_vars

\* C18, witness: a number in use on one train has been given to a new Cargo
\* of the other train.
C18_Witness ==
    /\ last.op = "cargo_create" /\ last.outcome = "saved"
    /\ \E c, d \in DOMAIN cargos :
        /\ cargos[c].train # cargos[d].train
        /\ cargos[c].number = cargos[d].number

\* C19: after every step every Route has a source other than its
\* destination and no two Routes have the same (source, destination) in
\* that order; the creation of a Route is saved exactly when its source
\* differs from its destination and no Route has its ordered pair (so A -> B
\* does not stand in the way of B -> A), and a refused creation changes no
\* Route.
C19_RoutesDistinctAndUnique ==
    [][/\ \A r \in DOMAIN routes' :
            routes'[r].source # routes'[r].destination
       /\ \A r, q \in DOMAIN routes' :
            r # q => <<routes'[r].source, routes'[r].destination>>
                        # <<routes'[q].source, routes'[q].destination>>
       /\ last'.op = "route_create" =>
            /\ last'.outcome = "saved" <=> (~ last'.bad /\ ~ last'.dup)
            /\ last'.outcome = "saved" =>
                    Cardinality(DOMAIN routes') = Cardinality(DOMAIN routes) + 1
            /\ last'.outcome # "saved" => routes' = routes]_vars

\* C19, witness: after A -> B, the route B -> A has been created, both
\* with station 3, which no initial route touches.
C19_Witness ==
    /\ last.op = "route_create" /\ last.outcome = "saved"
    /\ \E r, q \in DOMAIN routes :
        /\ routes[r].source = 3
        /\ routes[q].destination = 3
        /\ routes[r].destination = routes[q].source

\* The capacity shown for train t differs before and after the step, and
\* so does one of the two fields stored for it.
CapacityChanged(t) ==
    TrainRetrieveSerializer(trains'[t]).capacity
        # TrainRetrieveSerializer(trains[t]).capacity

FieldsChanged(t) ==
    \/ trains'[t].cargo_num # trains[t].cargo_num
    \/ trains'[t].places_in_cargo # trains[t].places_in_cargo

\* C20 as stated: after every step the capacity shown for every train is
\* cargo_num * places_in_cargo of its stored row, and it changes in a step
\* exactly when cargo_num or places_in_cargo changes in it.
C20_CapacityChangesExactlyWhenFieldsDo ==
    [][\A t \in TrainIds :
        /\ TrainRetrieveSerializer(trains'[t]).capacity
                = trains'[t].cargo_num * trains'[t].places_in_cargo
        /\ CapacityChanged(t) <=> FieldsChanged(t)]_vars

\* C20 as amended: after every step the capacity shown for every train is
\* cargo_num * places_in_cargo of its stored row, and it changes in a step
\* only when cargo_num or places_in_cargo changes in it.
C20_CapacityIsProduct ==
    [][\A t \in TrainIds :
        /\ TrainRetrieveSerializer(trains'[t]).capacity
                = trains'[t].cargo_num * trains'[t].places_in_cargo
        /\ CapacityChanged(t) => FieldsChanged(t)]_vars

\* C20, witness: a train update has been saved and a train of 2 cargos of
\* 2 places shows the capacity 4.
C20_Witness ==
    /\ last.op = "train_update" /\ last.outcome = "saved"
    /\ \E t \in TrainIds :
        /\ trains[t].cargo_num = 2 /\ trains[t].places_in_cargo = 2
        /\ TrainRetrieveSerializer(trains[t]).capacity = 4

\* C23: in every reachable state every Ticket row is within the bounds it
\* was validated against: its seat in 1 .. places_in_cargo and the number of
\* its cargo in 1 .. cargo_num of the train of its journey.
C23_TicketsStayInRange ==
    \A r \in BagToSet(tickets) :
        /\ r.cargo \in DOMAIN cargos
        /\ r.journey \in DOMAIN journeys
        /\ ~ OutOfRange(DB, r)

\* C21: when the receiver of a Cargo creation or deletion comes to its
\* comparison and the stored cargo_num of the train differs from the count
\* it has just taken, the count is stored.
C21_StoredCargoNumCompared ==
    [][\A c \in ClientIds :
        (/\ inflight[c].phase = "counted"
         /\ inflight'[c].phase = "done"
         /\ trains[inflight[c].data.train].cargo_num
                # inflight[c].data.cargo_count) =>
            trains'[inflight[c].data.train].cargo_num
                = inflight[c].data.cargo_count]_vars

\* C22: when no train was updated and every client has completed a Cargo
\* creation or deletion, all on one train, the stored cargo_num of that
\* train is the number of Cargo rows it owns.
C22_ConcurrentCargoOpsSynced ==
    (/\ last.op = "none"
     /\ \A c \in ClientIds :
            /\ inflight[c].phase = "done"
            /\ inflight[c].outcome \in {"saved", "deleted"}
     /\ \A c, d \in ClientIds :
            inflight[c].data.train = inflight[d].data.train)
    => \A c \in ClientIds :
        trains[inflight[c].data.train].cargo_num
            = cargos_count(cargos, inflight[c].data.train)

====
